---- MODULE Spec2Model ----
(***************************************************************************)
(* A model of the RPLidar driver of rplidar.py: the session controller     *)
(* (get_info, get_health, reset, stop, _setup_iter), the overflow guard    *)
(* and the two lazy sequences iter_measurements and iter_scans, run        *)
(* against a byte channel (pigpio's serial_* calls) and a device that      *)
(* answers commands and streams measurement records.                       *)
(*                                                                         *)
(* Bytes are naturals 0..255.  Angles and distances are kept as the raw    *)
(* integers the decoder computes before the division by 64. and 4.         *)
(***************************************************************************)
EXTENDS Integers, Sequences, FiniteSets, TLC

\* ------------------------------------------------------------ constants

SYNC_BYTE == 165
SYNC_BYTE2 == 90
GET_INFO_BYTE == 80
GET_HEALTH_BYTE == 82
STOP_BYTE == 37
RESET_BYTE == 64
SCAN_BYTE == 32
DESCRIPTOR_LEN == 7
INFO_LEN == 20
HEALTH_LEN == 3
INFO_TYPE == 4
HEALTH_TYPE == 6
SCAN_TYPE == 129
\* the literal 5 of _setup_iter's check of the scan descriptor
SCAN_LEN == 5

\* ------------------------------------------------------------ bounds

\* measurement records the device streams in one behaviour
MaxMeas == 4
\* API calls the caller makes in one behaviour (pulls are not counted)
MaxCalls == 1

\* the values of max_buf_meas and min_len the caller passes
MaxBufInputs == {0, 1}

MinLenInputs == {0, 1, 2}

\* ------------------------------------------------------------ helpers

Min(a, b) == IF a < b THEN a ELSE b

Take(s, n) == SubSeq(s, 1, Min(n, Len(s)))

Drop(s, n) == SubSeq(s, Min(n, Len(s)) + 1, Len(s))

\* pigpio's serial_read(handle, count): up to count of the buffered bytes
serial_read(buf, count) == [data |-> Take(buf, count), rest |-> Drop(buf, count)]

\* clear_input: serial_read(handle) with pigpio's default count
SERIAL_READ_COUNT == 1000

clear_input(buf) == serial_read(buf, SERIAL_READ_COUNT).rest

\* pigpio's serial_data_available(handle)
serial_data_available(buf) == Len(buf)

_HEALTH_STATUSES == [c \in {0, 1, 2} |->
                        IF c = 0 THEN "Good" ELSE IF c = 1 THEN "Warning" ELSE "Error"]

\* ------------------------------------------------------------ descriptors

\* variant: a descriptor that did not arrive in time is reported as a timeout
DescriptorErrorTimeout(d) ==
    IF Len(d) # DESCRIPTOR_LEN THEN "Timeout"
    ELSE IF d[1] # SYNC_BYTE \/ d[2] # SYNC_BYTE2
         THEN "Incorrect descriptor starting bytes"
    ELSE "none"

\* _read_descriptor's two checks of the bytes it read
DescriptorError(d) ==
    IF Len(d) # DESCRIPTOR_LEN THEN "Descriptor length mismatch"
    ELSE IF ~(d[1] = SYNC_BYTE /\ d[2] = SYNC_BYTE2)
         THEN "Incorrect descriptor starting bytes"
         ELSE "none"

\* what _read_descriptor returns: descriptor[2], descriptor[-2] == 0, descriptor[-1]
DecodeDescriptor(d) == [dsize |-> d[3], is_single |-> (d[6] = 0), dtype |-> d[7]]

\* get_info's checks of the decoded descriptor
InfoReplyError(r) ==
    IF r.dsize # INFO_LEN THEN "Wrong get_info reply length"
    ELSE IF ~r.is_single THEN "Not a single response mode"
    ELSE IF r.dtype # INFO_TYPE THEN "Wrong response data type"
    ELSE "none"

\* get_health's checks of the decoded descriptor
HealthReplyError(r) ==
    IF r.dsize # HEALTH_LEN THEN "Wrong get_info reply length"
    ELSE IF ~r.is_single THEN "Not a single response mode"
    ELSE IF r.dtype # HEALTH_TYPE THEN "Wrong response data type"
    ELSE "none"

\* _setup_iter's checks of the decoded scan descriptor
ScanReplyError(r) ==
    IF r.dsize # SCAN_LEN THEN "Wrong get_info reply length"
    ELSE IF r.is_single THEN "Not a multiple response mode"
    ELSE IF r.dtype # SCAN_TYPE THEN "Wrong response data type"
    ELSE "none"

\* ------------------------------------------------------------ the device

InfoDescriptor == <<SYNC_BYTE, SYNC_BYTE2, INFO_LEN, 0, 0, 0, INFO_TYPE>>

HealthDescriptor == <<SYNC_BYTE, SYNC_BYTE2, HEALTH_LEN, 0, 0, 0, HEALTH_TYPE>>

ScanDescriptor == <<SYNC_BYTE, SYNC_BYTE2, SCAN_LEN, 0, 0, 64, SCAN_TYPE>>

\* the values a faulty device or line puts in byte i of a descriptor
FaultBytes(i) ==
    IF i = 2 THEN {0}
    ELSE IF i = 3 THEN {HEALTH_LEN, SCAN_LEN, INFO_LEN}
    ELSE IF i = 4 THEN {1}
    ELSE IF i = 6 THEN {0, 1, 64}
    ELSE IF i = 7 THEN {INFO_TYPE, HEALTH_TYPE, SCAN_TYPE}
    ELSE {}

\* a descriptor and those that differ from it in one byte
Variants(d) ==
    {d} \cup UNION {{[d EXCEPT ![i] = v] : v \in FaultBytes(i)} : i \in 2..7}

InfoBody == [i \in 1..INFO_LEN |-> IF i = 1 THEN 24 ELSE 0]

\* status 0..2, and 3, which _HEALTH_STATUSES does not know; error code 0
HealthBodies == {<<st, 0, 0>> : st \in 0..3}

\* the variants of d the driver takes for d
Accepted(d) == {v \in Variants(d) : v[1] = d[1] /\ v[2] = d[2] /\ v[3] = d[3]
                                    /\ (v[6] = 0) = (d[6] = 0) /\ v[7] = d[7]}

\* The line delivers bytes in bursts.  A burst may end inside a descriptor
\* (after the sync bytes), between a descriptor and its body, and inside a
\* measurement record (after 2 bytes).
FRAGMENT_LEN == 2

Bursts(s) == <<Take(s, FRAGMENT_LEN), Drop(s, FRAGMENT_LEN)>>

\* what the device may put on the line on receiving a command, as bursts
\* (<<>>: nothing)
DeviceReplies(cmd) ==
    IF cmd = GET_INFO_BYTE
    THEN {Bursts(d) \o <<InfoBody>> : d \in Variants(InfoDescriptor)} \cup {<<>>}
    ELSE IF cmd = GET_HEALTH_BYTE
         THEN {Bursts(d) \o <<b>> : d \in Accepted(HealthDescriptor), b \in HealthBodies}
              \cup {Bursts(d) \o <<<<0, 0, 0>>>> : d \in Variants(HealthDescriptor)}
              \cup {<<>>}
    ELSE IF cmd = SCAN_BYTE THEN {Bursts(d) : d \in Variants(ScanDescriptor)} \cup {<<>>}
    ELSE {<<>>}

\* The device's measurement bytes.  A byte of the stream is kept in the
\* channel as a numbered placeholder, 256 + 5 * n + i for byte i of record n,
\* and takes its value when the driver reads it: what a read returns is the
\* same as if the device had chosen the value on sending.
StreamByte(n, i) == 256 + SCAN_LEN * n + i

StreamRecord(n) == [i \in 1..SCAN_LEN |-> StreamByte(n, i - 1)]

\* byte 0 of a record: new scan (01), same scan (10), corrupt (11)
Byte0Inputs == {1, 2, 3}

\* byte 1 of a record: check bit set, angle bits 0; or check bit clear
Byte1Inputs == {1, 0}

\* the values a buffered byte can turn out to have; byte 3 of record n is n
Values(t) ==
    IF t < 256 THEN {t}
    ELSE LET n == (t - 256) \div SCAN_LEN
             i == (t - 256) % SCAN_LEN
         IN  IF i = 0 THEN Byte0Inputs
             ELSE IF i = 1 THEN Byte1Inputs
             ELSE IF i = 3 THEN {n}
             ELSE {0}

RECURSIVE Resolutions(_)
\* the byte strings a read of the buffered bytes s can return
Resolutions(s) ==
    IF s = <<>> THEN {<<>>}
    ELSE {<<v>> \o t : v \in Values(Head(s)), t \in Resolutions(Tail(s))}

\* ------------------------------------------------------------ state

VARIABLES
    motor_running,  \* RPLidar.motor_running
    rx,             \* bytes buffered in the serial channel, oldest first
    wire,           \* the bursts the device has sent that have not arrived yet
    dev_scanning,   \* the device is in continuous-scan mode
    nsent,          \* measurement records the device has produced
    op,             \* the API call in progress, or the last one
    pc,             \* where the driver is in it; "idle": the caller has control
    ret,            \* who called get_health / reset: "api", "setup1", "setup2"
    genst,          \* the generator of op: "none", "running", "suspended", "closed"
    dsize,          \* the declared body size of the response being read
    err,            \* the message of the exception the last call raised, or "none"
    calls,          \* the protocol calls of the session routine in progress:
                    \* motor (1/0), write (cmd), read_descriptor and read_response
                    \* (bytes asked), clear_input (bytes left), health (status read)
    ncalls,         \* API calls made so far
    max_buf_meas,   \* the generator's max_buf_meas
    min_len,        \* the generator's min_len
    raw,            \* the bytes of the last body read of the generator
    idx,            \* iter_scans: the next record of raw to process
    scan,           \* iter_scans: the in-progress scan
    out,            \* what the generator has yielded, in order
    fed,            \* iter_scans: the measurements the loop has processed and the
                    \* overflow drains, in order
    drains,         \* overflow drains of the generator so far
    lastGuard,      \* what the last run of _check_buffer saw and did
    guarded         \* _check_buffer has run since the generator's last body read

devVars == <<rx, wire, dev_scanning, nsent>>

genVars == <<max_buf_meas, min_len, raw, idx, scan, out, fed, drains, lastGuard, guarded>>

vars == <<motor_running, rx, wire, dev_scanning, nsent, op, pc, ret, genst, dsize,
          err, calls, ncalls, max_buf_meas, min_len, raw, idx, scan, out, fed,
          drains, lastGuard, guarded>>

Ev(o, a) == [op |-> o, arg |-> a]

NoGuard == [ran |-> FALSE, seen |-> 0, asked |-> 0, got |-> 0, left |-> 0,
            reads |-> 0, warned |-> FALSE]

\* the state after RPLidar.__init__: connected, motor started
Init ==
    /\ motor_running = TRUE
    /\ rx = <<>> /\ wire = <<>> /\ dev_scanning = FALSE /\ nsent = 0
    /\ op = "none" /\ pc = "idle" /\ ret = "api" /\ genst = "none"
    /\ dsize = 0 /\ err = "none" /\ calls = <<>> /\ ncalls = 0
    /\ max_buf_meas = 0 /\ min_len = 0 /\ raw = <<>> /\ idx = 0
    /\ scan = <<>> /\ out = <<>> /\ fed = <<>> /\ drains = 0
    /\ lastGuard = NoGuard /\ guarded = FALSE

\* a fresh generator, or none
GenReset ==
    /\ raw' = <<>> /\ idx' = 0 /\ scan' = <<>> /\ out' = <<>> /\ fed' = <<>>
    /\ drains' = 0 /\ lastGuard' = NoGuard /\ guarded' = FALSE

\* ------------------------------------------------------------ the device

\* the caller can still act: the device is followed only as long as it can
Observed == pc # "idle" \/ genst = "suspended" \/ ncalls < MaxCalls + 1

\* the device produces the next measurement record
DeviceMeasure ==
    /\ Observed
    /\ dev_scanning /\ nsent < MaxMeas /\ wire = <<>>
    /\ wire' = Bursts(StreamRecord(nsent))
    /\ nsent' = nsent + 1
    /\ UNCHANGED <<motor_running, rx, dev_scanning, op, pc, ret, genst, dsize, err,
                   calls, ncalls>>
    /\ UNCHANGED genVars

\* the next burst on the line arrives in the channel's buffer
Deliver ==
    /\ Observed
    /\ wire # <<>>
    /\ rx' = rx \o Head(wire) /\ wire' = Tail(wire)
    /\ UNCHANGED <<motor_running, dev_scanning, nsent, op, pc, ret, genst, dsize, err,
                   calls, ncalls>>
    /\ UNCHANGED genVars

\* ------------------------------------------------------------ driver steps

\* an exception leaves the call; a running generator is finished by it
\* (its frame is gone: the raising step clears raw, idx and scan)
Raise(msg) ==
    /\ err' = msg
    /\ pc' = "idle"
    /\ genst' = IF genst = "running" THEN "closed" ELSE genst

\* _send_cmd: the two bytes SYNC_BYTE, cmd are written; the device reacts
SendCmd(cmd) ==
    /\ calls' = Append(calls, Ev("write", cmd))
    /\ \E reply \in DeviceReplies(cmd) : wire' = wire \o reply
    /\ dev_scanning' = (cmd = SCAN_BYTE)
    /\ UNCHANGED <<rx, nsent>>

\* variant: a reset is asked for on a Warning report too
NeedsResetOnWarning(status) == status \in {_HEALTH_STATUSES[1], _HEALTH_STATUSES[2]}

\* variant: the health report after the reset is never fatal
HardwareFailureIgnored(status) == FALSE

\* line 289: the first health report asks for a reset
NeedsReset(status) == status = _HEALTH_STATUSES[2]

\* line 294: the health report after the reset is fatal
HardwareFailure(status) == status = _HEALTH_STATUSES[2]

\* the caller calls get_info, get_health or reset
Call ==
    /\ pc = "idle" /\ ncalls < MaxCalls
    /\ \E o \in {"get_info", "get_health", "reset"} :
          /\ op' = o
          /\ pc' = IF o = "get_info" THEN "gi_send"
                   ELSE IF o = "get_health" THEN "gh_send" ELSE "reset_send"
    /\ ret' = "api" /\ genst' = "none" /\ err' = "none" /\ calls' = <<>>
    /\ ncalls' = ncalls + 1
    /\ max_buf_meas' = 0 /\ min_len' = 0 /\ GenReset
    /\ UNCHANGED <<motor_running, dsize>>
    /\ UNCHANGED devVars

\* the caller calls stop: it may shut down after its last other call too
CallStop ==
    /\ pc = "idle" /\ ncalls < MaxCalls + 1
    /\ op' = "stop" /\ pc' = "stop_send"
    /\ ret' = "api" /\ genst' = "none" /\ err' = "none" /\ calls' = <<>>
    /\ ncalls' = ncalls + 1
    /\ max_buf_meas' = 0 /\ min_len' = 0 /\ GenReset
    /\ UNCHANGED <<motor_running, dsize>>
    /\ UNCHANGED devVars

\* start_motor
StartMotor ==
    /\ pc = "idle" /\ ncalls < MaxCalls
    /\ op' = "start_motor" /\ motor_running' = TRUE
    /\ ret' = "api" /\ genst' = "none" /\ err' = "none"
    /\ calls' = <<Ev("motor", 1)>>
    /\ ncalls' = ncalls + 1
    /\ max_buf_meas' = 0 /\ min_len' = 0 /\ GenReset
    /\ UNCHANGED <<pc, dsize>>
    /\ UNCHANGED devVars

\* stop_motor
StopMotor ==
    /\ pc = "idle" /\ ncalls < MaxCalls
    /\ op' = "stop_motor" /\ motor_running' = FALSE
    /\ ret' = "api" /\ genst' = "none" /\ err' = "none"
    /\ calls' = <<Ev("motor", 0)>>
    /\ ncalls' = ncalls + 1
    /\ max_buf_meas' = 0 /\ min_len' = 0 /\ GenReset
    /\ UNCHANGED <<pc, dsize>>
    /\ UNCHANGED devVars

\* get_info, line 216
GetInfoSend ==
    /\ pc = "gi_send"
    /\ SendCmd(GET_INFO_BYTE)
    /\ pc' = "gi_desc"
    /\ UNCHANGED <<motor_running, op, ret, genst, dsize, err, ncalls>>
    /\ UNCHANGED genVars

\* get_info, lines 217-223: _read_descriptor at the end of its poll, and the checks
GetInfoDescriptor ==
    /\ pc = "gi_desc"
    /\ \E d \in Resolutions(serial_read(rx, DESCRIPTOR_LEN).data) :
       LET e == DescriptorError(d)
           f == IF e = "none" THEN InfoReplyError(DecodeDescriptor(d)) ELSE e
       IN  /\ rx' = serial_read(rx, DESCRIPTOR_LEN).rest
           /\ calls' = Append(calls, Ev("read_descriptor", DESCRIPTOR_LEN))
           /\ IF f # "none"
              THEN Raise(f) /\ UNCHANGED dsize
              ELSE /\ pc' = "gi_body" /\ dsize' = DecodeDescriptor(d).dsize
                   /\ UNCHANGED <<err, genst>>
    /\ UNCHANGED <<motor_running, wire, dev_scanning, nsent, op, ret, ncalls>>
    /\ UNCHANGED genVars

\* get_info, lines 224-233: _read_response at the end of its poll
GetInfoBody ==
    /\ pc = "gi_body"
    /\ LET r == serial_read(rx, dsize)
       IN  /\ rx' = r.rest
           /\ calls' = Append(calls, Ev("read_response", dsize))
           /\ IF Len(r.data) # dsize
              THEN Raise("Wrong body size")
              ELSE pc' = "idle" /\ UNCHANGED <<err, genst>>
    /\ UNCHANGED <<motor_running, wire, dev_scanning, nsent, op, ret, dsize, ncalls>>
    /\ UNCHANGED genVars

\* get_health, line 250
GetHealthSend ==
    /\ pc = "gh_send"
    /\ SendCmd(GET_HEALTH_BYTE)
    /\ pc' = "gh_desc"
    /\ UNCHANGED <<motor_running, op, ret, genst, dsize, err, ncalls>>
    /\ UNCHANGED genVars

\* get_health, lines 251-257
GetHealthDescriptor ==
    /\ pc = "gh_desc"
    /\ \E d \in Resolutions(serial_read(rx, DESCRIPTOR_LEN).data) :
       LET e == DescriptorError(d)
           f == IF e = "none" THEN HealthReplyError(DecodeDescriptor(d)) ELSE e
       IN  /\ rx' = serial_read(rx, DESCRIPTOR_LEN).rest
           /\ calls' = Append(calls, Ev("read_descriptor", DESCRIPTOR_LEN))
           /\ IF f # "none"
              THEN Raise(f) /\ UNCHANGED dsize
              ELSE /\ pc' = "gh_body" /\ dsize' = DecodeDescriptor(d).dsize
                   /\ UNCHANGED <<err, genst>>
    /\ UNCHANGED <<motor_running, wire, dev_scanning, nsent, op, ret, ncalls>>
    /\ UNCHANGED genVars

\* get_health, lines 258-261, and what its caller does with the report:
\* the caller of the API gets it, _setup_iter branches on it (lines 289-299)
GetHealthBody ==
    /\ pc = "gh_body"
    /\ \E data \in Resolutions(serial_read(rx, dsize).data) :
       LET code == data[1]
           status == _HEALTH_STATUSES[code]
       IN  /\ rx' = serial_read(rx, dsize).rest
           /\ IF Len(data) # dsize
              THEN /\ Raise("Wrong body size")
                   /\ calls' = Append(calls, Ev("read_response", dsize))
              ELSE IF code \notin DOMAIN _HEALTH_STATUSES
              THEN /\ Raise("KeyError")
                   /\ calls' = Append(calls, Ev("read_response", dsize))
              ELSE /\ calls' = calls \o <<Ev("read_response", dsize), Ev("health", code)>>
                   /\ IF ret = "setup2" /\ HardwareFailure(status)
                      THEN Raise("RPLidar hardware failure")
                      ELSE /\ pc' = IF ret = "api" THEN "idle"
                                    ELSE IF ret = "setup1" /\ NeedsReset(status)
                                         THEN "reset_send"
                                         ELSE "scan_send"
                           /\ UNCHANGED <<err, genst>>
    /\ UNCHANGED <<motor_running, wire, dev_scanning, nsent, op, ret, dsize, ncalls>>
    /\ UNCHANGED genVars

\* reset, line 280
ResetSend ==
    /\ pc = "reset_send"
    /\ SendCmd(RESET_BYTE)
    /\ pc' = "reset_clear"
    /\ UNCHANGED <<motor_running, op, ret, genst, dsize, err, ncalls>>
    /\ UNCHANGED genVars

\* reset, lines 281-282, after the sleep; _setup_iter goes on to line 293
ResetClear ==
    /\ pc = "reset_clear"
    /\ rx' = clear_input(rx)
    /\ calls' = Append(calls, Ev("clear_input", Len(clear_input(rx))))
    /\ pc' = IF ret = "api" THEN "idle" ELSE "gh_send"
    /\ ret' = IF ret = "api" THEN "api" ELSE "setup2"
    /\ UNCHANGED <<motor_running, wire, dev_scanning, nsent, op, genst, dsize, err, ncalls>>
    /\ UNCHANGED genVars

\* variant: stop powers the motor off before it drains the input
StopNextMotorFirst(p) ==
    IF p = "stop_send" THEN "stop_motor"
    ELSE IF p = "stop_motor" THEN "stop_clear"
    ELSE "idle"

\* the order of stop's three statements, lines 271-274
StopNext(p) ==
    IF p = "stop_send" THEN "stop_clear"
    ELSE IF p = "stop_clear" THEN "stop_motor"
    ELSE "idle"

\* stop, line 271
StopSend ==
    /\ pc = "stop_send"
    /\ SendCmd(STOP_BYTE)
    /\ pc' = StopNext(pc)
    /\ UNCHANGED <<motor_running, op, ret, genst, dsize, err, ncalls>>
    /\ UNCHANGED genVars

\* stop, lines 272-273
StopClear ==
    /\ pc = "stop_clear"
    /\ rx' = clear_input(rx)
    /\ calls' = Append(calls, Ev("clear_input", Len(clear_input(rx))))
    /\ pc' = StopNext(pc)
    /\ UNCHANGED <<motor_running, wire, dev_scanning, nsent, op, ret, genst, dsize, err, ncalls>>
    /\ UNCHANGED genVars

\* stop, line 274: stop_motor
StopPowerOff ==
    /\ pc = "stop_motor"
    /\ motor_running' = FALSE
    /\ calls' = Append(calls, Ev("motor", 0))
    /\ pc' = StopNext(pc)
    /\ UNCHANGED <<op, ret, genst, dsize, err, ncalls>>
    /\ UNCHANGED devVars
    /\ UNCHANGED genVars

\* ------------------------------------------------------------ startup

\* the caller starts an iteration again after a decode failure ended one
DecodeErrors == {"New scan flags mismatch", "Check bit not equal to 1"}

Retry == genst = "closed" /\ err \in DecodeErrors /\ ncalls < MaxCalls + 1

\* the caller calls iter_measurements(max_buf_meas) and pulls the first item:
\* the generator's body starts with _setup_iter
CallIterMeasurements ==
    /\ pc = "idle" /\ (ncalls < MaxCalls \/ Retry)
    /\ op' = "iter_measurements" /\ pc' = "setup_start" /\ genst' = "running"
    /\ \E mb \in MaxBufInputs : max_buf_meas' = mb
    /\ min_len' = 0
    /\ ret' = "api" /\ err' = "none" /\ calls' = <<>> /\ ncalls' = ncalls + 1
    /\ GenReset
    /\ UNCHANGED <<motor_running, dsize>>
    /\ UNCHANGED devVars

\* the caller calls iter_scans(max_buf_meas, min_len) and pulls the first scan
CallIterScans ==
    /\ pc = "idle" /\ (ncalls < MaxCalls \/ Retry)
    /\ op' = "iter_scans" /\ pc' = "setup_start" /\ genst' = "running"
    /\ \E mb \in MaxBufInputs : max_buf_meas' = mb
    /\ \E ml \in MinLenInputs : min_len' = ml
    /\ ret' = "api" /\ err' = "none" /\ calls' = <<>> /\ ncalls' = ncalls + 1
    /\ GenReset
    /\ UNCHANGED <<motor_running, dsize>>
    /\ UNCHANGED devVars

\* _setup_iter, line 286: start_motor; line 287 calls get_health
SetupStart ==
    /\ pc = "setup_start"
    /\ motor_running' = TRUE
    /\ calls' = Append(calls, Ev("motor", 1))
    /\ pc' = "gh_send" /\ ret' = "setup1"
    /\ UNCHANGED <<op, genst, dsize, err, ncalls>>
    /\ UNCHANGED devVars
    /\ UNCHANGED genVars

\* _setup_iter, lines 300-301
ScanSend ==
    /\ pc = "scan_send"
    /\ SendCmd(SCAN_BYTE)
    /\ pc' = "scan_desc"
    /\ UNCHANGED <<motor_running, op, ret, genst, dsize, err, ncalls>>
    /\ UNCHANGED genVars

\* _setup_iter, lines 302-308
ScanDescriptorRead ==
    /\ pc = "scan_desc"
    /\ \E d \in Resolutions(serial_read(rx, DESCRIPTOR_LEN).data) :
       LET e == DescriptorError(d)
           f == IF e = "none" THEN ScanReplyError(DecodeDescriptor(d)) ELSE e
       IN  /\ rx' = serial_read(rx, DESCRIPTOR_LEN).rest
           /\ calls' = Append(calls, Ev("read_descriptor", DESCRIPTOR_LEN))
           /\ IF f # "none"
              THEN Raise(f) /\ UNCHANGED dsize
              ELSE /\ pc' = "setup_return" /\ dsize' = DecodeDescriptor(d).dsize
                   /\ UNCHANGED <<err, genst>>
    /\ UNCHANGED <<motor_running, wire, dev_scanning, nsent, op, ret, ncalls>>
    /\ UNCHANGED genVars

\* _setup_iter returns dsize (line 309) to line 348, or to lines 376-377
SetupReturn ==
    /\ pc = "setup_return"
    /\ pc' = IF op = "iter_measurements" THEN "m_read" ELSE "s_read"
    /\ scan' = <<>>
    /\ calls' = <<>> /\ ret' = "api"
    /\ UNCHANGED <<motor_running, op, genst, dsize, err, ncalls>>
    /\ UNCHANGED devVars
    /\ UNCHANGED <<max_buf_meas, min_len, raw, idx, out, fed, drains, lastGuard, guarded>>

\* ------------------------------------------------------------ measurements

Bit(b, i) == (b \div (2 ^ i)) % 2

\* variant: the check bit is not looked at
ProcessScanErrorFlagsOnly(r) ==
    IF (Bit(r[1], 0) = 1) = (Bit(r[1], 1) = 1) THEN "New scan flags mismatch"
    ELSE "none"

\* _process_scan's two checks
ProcessScanError(r) ==
    IF (Bit(r[1], 0) = 1) = (Bit(r[1], 1) = 1) THEN "New scan flags mismatch"
    ELSE IF Bit(r[2], 0) # 1 THEN "Check bit not equal to 1"
    ELSE "none"

\* variant: the angle is taken from byte 1 alone
ProcessScanAngleLow(r) ==
    [new_scan |-> (Bit(r[1], 0) = 1),
     quality  |-> r[1] \div 4,
     angle    |-> r[2] \div 2,
     distance |-> r[4] + r[5] * 256]

\* what _process_scan returns, angle and distance before the division
ProcessScan(r) ==
    [new_scan |-> (Bit(r[1], 0) = 1),
     quality  |-> r[1] \div 4,
     angle    |-> (r[2] \div 2) + r[3] * 128,
     distance |-> r[4] + r[5] * 256]

\* variant: the guard runs whatever max_buf_meas is
GuardEnabledAlways(mb) == TRUE

\* lines 352 and 389: the guard runs only for a max_buf_meas that is not 0
GuardEnabled(mb) == mb # 0

\* line 315
BufferOverflow(data_in_buf, mb, ds) == data_in_buf > mb * ds

\* variant: the drain read asks for the whole backlog
DrainCountAll(data_in_buf, ds) == data_in_buf

\* line 321: the count of the drain read
DrainCount(data_in_buf, ds) == (data_in_buf \div ds) * ds

\* _check_buffer on a channel holding buf
CheckBuffer(buf, mb, ds) ==
    LET n == serial_data_available(buf)
        r == serial_read(buf, DrainCount(n, ds))
    IN  IF BufferOverflow(n, mb, ds)
        THEN [drained |-> TRUE, rest |-> r.rest,
              guard |-> [ran |-> TRUE, seen |-> n, asked |-> DrainCount(n, ds),
                         got |-> Len(r.data), left |-> Len(r.rest), reads |-> 1,
                         warned |-> TRUE]]
        ELSE [drained |-> FALSE, rest |-> buf,
              guard |-> [ran |-> TRUE, seen |-> n, asked |-> 0, got |-> 0,
                         left |-> n, reads |-> 0, warned |-> FALSE]]

\* variant: a scan of exactly min_len measurements is emitted
EmitScanAtMinLen(s, ml) == Len(s) >= ml

\* variant: every in-progress scan is emitted
EmitScanAlways(s, ml) == TRUE

\* line 386
EmitScan(s, ml) == Len(s) > ml

\* ------------------------------------------------------------ iter_measurements

\* line 350: _read_response(dsize) at the end of its poll
MeasRead ==
    /\ pc = "m_read"
    /\ \E data \in Resolutions(serial_read(rx, dsize).data) :
           /\ rx' = serial_read(rx, dsize).rest
           /\ IF Len(data) # dsize
              THEN Raise("Wrong body size") /\ raw' = <<>>
              ELSE pc' = "m_yield" /\ raw' = data /\ UNCHANGED <<err, genst>>
    /\ guarded' = FALSE
    /\ UNCHANGED <<motor_running, wire, dev_scanning, nsent, op, ret, dsize, calls, ncalls>>
    /\ UNCHANGED <<max_buf_meas, min_len, idx, scan, out, fed, drains, lastGuard>>

\* lines 352-354: the guard, then the record is decoded and yielded
MeasYield ==
    /\ pc = "m_yield"
    /\ LET g == CheckBuffer(rx, max_buf_meas, dsize)
           e == ProcessScanError(raw)
       IN  /\ IF GuardEnabled(max_buf_meas)
              THEN /\ rx' = g.rest /\ lastGuard' = g.guard /\ guarded' = TRUE
                   /\ drains' = drains + (IF g.drained THEN 1 ELSE 0)
              ELSE UNCHANGED <<rx, lastGuard, drains, guarded>>
           /\ IF e # "none"
              THEN Raise(e) /\ raw' = <<>> /\ UNCHANGED out
              ELSE /\ out' = Append(out, ProcessScan(raw))
                   /\ genst' = "suspended" /\ pc' = "idle"
                   /\ UNCHANGED <<err, raw>>
    /\ UNCHANGED <<motor_running, wire, dev_scanning, nsent, op, ret, dsize, calls, ncalls>>
    /\ UNCHANGED <<max_buf_meas, min_len, idx, scan, fed>>

\* ------------------------------------------------------------ iter_scans

\* lines 379-383: the whole records buffered are read in one batch
ScansRead ==
    /\ pc = "s_read"
    /\ LET data_in_buf == serial_data_available(rx)
           r == serial_read(rx, (data_in_buf \div dsize) * dsize)
       IN  /\ rx' = r.rest
           /\ \E data \in Resolutions(r.data) : raw' = data
           /\ idx' = 0
           /\ pc' = IF data_in_buf \div dsize = 0 THEN "s_read" ELSE "s_loop"
           /\ guarded' = IF data_in_buf \div dsize = 0 THEN guarded ELSE FALSE
    /\ UNCHANGED <<motor_running, wire, dev_scanning, nsent, op, ret, genst, dsize,
                   err, calls, ncalls>>
    /\ UNCHANGED <<max_buf_meas, min_len, scan, out, fed, drains, lastGuard>>

\* record i of the batch
Record(i) == SubSeq(raw, i * dsize + 1, (i + 1) * dsize)

\* a scan's entry: (quality, angle, distance)
Entry(m) == <<m.quality, m.angle, m.distance>>

\* where the loop of line 384 goes after record idx
NextRecord == IF idx + 1 < Len(raw) \div dsize THEN "s_loop" ELSE "s_read"

\* what fed holds for an overflow drain
DrainMark == [new_scan |-> FALSE, entry |-> <<>>]

\* variant: after a drain the loop goes on with the batch already read
StartNewScanKeepBatch(m, f) ==
    LET g == CheckBuffer(rx, max_buf_meas, dsize)
    IN  /\ scan' = <<Entry(m)>>
        /\ pc' = NextRecord /\ idx' = idx + 1
        /\ IF GuardEnabled(max_buf_meas)
           THEN /\ rx' = g.rest /\ lastGuard' = g.guard /\ guarded' = TRUE
                /\ drains' = drains + (IF g.drained THEN 1 ELSE 0)
                /\ fed' = IF g.drained THEN Append(f, DrainMark) ELSE f
           ELSE /\ UNCHANGED <<rx, lastGuard, guarded, drains>>
                /\ fed' = f

\* lines 388-391 for a record with new_scan set; f is fed with the record
StartNewScan(m, f) ==
    LET g == CheckBuffer(rx, max_buf_meas, dsize)
    IN  IF GuardEnabled(max_buf_meas) /\ g.drained
        THEN /\ scan' = <<>>
             /\ rx' = g.rest /\ lastGuard' = g.guard /\ drains' = drains + 1
             /\ guarded' = TRUE
             /\ fed' = Append(f, DrainMark)
             /\ pc' = "s_read" /\ UNCHANGED idx
        ELSE /\ scan' = <<Entry(m)>>
             /\ IF GuardEnabled(max_buf_meas)
                THEN lastGuard' = g.guard /\ guarded' = TRUE
                ELSE UNCHANGED <<lastGuard, guarded>>
             /\ fed' = f
             /\ UNCHANGED <<rx, drains>>
             /\ pc' = NextRecord /\ idx' = idx + 1

\* what fed holds for a measurement the loop has processed
Processed(m) == [new_scan |-> m.new_scan, entry |-> Entry(m)]

\* lines 384-391 for the next record of the batch, up to a yield
ScansProcess ==
    /\ pc = "s_loop"
    /\ LET e == ProcessScanError(Record(idx))
           m == ProcessScan(Record(idx))
       IN  IF e # "none"
           THEN /\ Raise(e)
                /\ raw' = <<>> /\ idx' = 0 /\ scan' = <<>>
                /\ UNCHANGED <<rx, out, fed, drains, lastGuard, guarded>>
           ELSE /\ UNCHANGED raw
                /\ IF m.new_scan
                   THEN IF EmitScan(scan, min_len)
                        THEN /\ out' = Append(out, scan)
                             /\ fed' = Append(fed, Processed(m))
                             /\ genst' = "suspended" /\ pc' = "idle"
                             /\ UNCHANGED <<rx, idx, scan, drains, lastGuard, guarded, err>>
                        ELSE /\ StartNewScan(m, Append(fed, Processed(m)))
                             /\ UNCHANGED <<out, genst, err>>
                   ELSE /\ scan' = Append(scan, Entry(m))
                        /\ fed' = Append(fed, Processed(m))
                        /\ pc' = NextRecord /\ idx' = idx + 1
                        /\ UNCHANGED <<rx, out, drains, lastGuard, guarded, genst, err>>
    /\ UNCHANGED <<motor_running, wire, dev_scanning, nsent, op, ret, dsize, calls, ncalls>>
    /\ UNCHANGED <<max_buf_meas, min_len>>

\* the generator resumes after the yield of line 387: lines 388-391
ScansResume ==
    /\ pc = "s_resume"
    /\ StartNewScan(ProcessScan(Record(idx)), fed)
    /\ UNCHANGED <<motor_running, wire, dev_scanning, nsent, op, ret, genst, dsize,
                   err, calls, ncalls>>
    /\ UNCHANGED <<max_buf_meas, min_len, raw, out>>

\* the caller pulls the next item of a suspended generator
Pull ==
    /\ pc = "idle" /\ genst = "suspended"
    /\ genst' = "running"
    /\ pc' = IF op = "iter_scans" THEN "s_resume" ELSE "m_read"
    /\ err' = "none"
    /\ UNCHANGED <<motor_running, op, ret, dsize, calls, ncalls>>
    /\ UNCHANGED devVars
    /\ UNCHANGED genVars

\* the caller pulls from a finished generator: StopIteration, no code runs
PullClosed ==
    /\ pc = "idle" /\ genst = "closed"
    /\ err' = "StopIteration"
    /\ UNCHANGED <<motor_running, op, pc, ret, genst, dsize, calls, ncalls>>
    /\ UNCHANGED devVars
    /\ UNCHANGED genVars

\* ------------------------------------------------------------ specification

Next ==
    \/ DeviceMeasure \/ Deliver
    \/ Call \/ CallStop \/ StartMotor \/ StopMotor
    \/ GetInfoSend \/ GetInfoDescriptor \/ GetInfoBody
    \/ GetHealthSend \/ GetHealthDescriptor \/ GetHealthBody
    \/ ResetSend \/ ResetClear
    \/ StopSend \/ StopClear \/ StopPowerOff
    \/ CallIterMeasurements \/ CallIterScans
    \/ SetupStart \/ ScanSend \/ ScanDescriptorRead \/ SetupReturn
    \/ MeasRead \/ MeasYield
    \/ ScansRead \/ ScansProcess \/ ScansResume
    \/ Pull \/ PullClosed

Spec == Init /\ [][Next]_vars

\* Once pulled, the generator's code runs: each of its steps is taken when it
\* stays possible.
FairSpec ==
    /\ Spec
    /\ WF_vars(MeasRead) /\ WF_vars(MeasYield)
    /\ WF_vars(ScansRead) /\ WF_vars(ScansProcess) /\ WF_vars(ScansResume)

\* ------------------------------------------------------------ the codec
\* The functions that encode commands and decode replies, applied to given
\* bytes: calls holds the one call, <<Ev(function, argument)>>, out what it
\* wrote or returned, err the exception it raised.

MaxPayload == 3

RECURSIVE Xor(_, _)
\* a ^ b
Xor(a, b) ==
    IF a = 0 THEN b
    ELSE IF b = 0 THEN a
    ELSE ((a + b) % 2) + 2 * Xor(a \div 2, b \div 2)

RECURSIVE Checksum(_)
\* lines 167-169: the XOR of the bytes of req
Checksum(req) == IF req = <<>> THEN 0 ELSE Xor(Head(req), Checksum(Tail(req)))

\* variant: the sync byte is left out of the checksum
SendPayloadCmdNoSync(cmd, payload) ==
    <<SYNC_BYTE, cmd, Len(payload)>> \o payload
        \o <<Checksum(<<cmd, Len(payload)>> \o payload)>>

\* _send_payload_cmd: the bytes written (the size is packed as one byte,
\* which takes a payload of at most 255 bytes)
_send_payload_cmd(cmd, payload) ==
    LET req == <<SYNC_BYTE, cmd, Len(payload)>> \o payload
    IN  req \o <<Checksum(req)>>

\* _send_cmd: the bytes written
_send_cmd(cmd) == <<SYNC_BYTE, cmd>>

\* the float n / d
Float(n, d) == [num |-> n, den |-> d]

\* what _process_scan returns when it raises nothing (lines 84-86)
_process_scan(r) ==
    [new_scan |-> ProcessScan(r).new_scan,
     quality  |-> ProcessScan(r).quality,
     angle    |-> Float(ProcessScan(r).angle, 64),
     distance |-> Float(ProcessScan(r).distance, 4)]

RECURSIVE SeqsOver(_, _)
\* the sequences over S of length at most n
SeqsOver(S, n) ==
    IF n = 0 THEN {<<>>}
    ELSE LET T == SeqsOver(S, n - 1)
         IN  T \cup {Append(t, x) : t \in T, x \in S}

OpcodeInputs == {0, 80, 240}

PayloadInputs == SeqsOver({0, 1, 165, 255}, MaxPayload)

DescriptorInputs ==
    {<<a, b, c, d, e, f, g>> :
        a \in {SYNC_BYTE, 0}, b \in {SYNC_BYTE2, 0}, c \in {3, 5, 20}, d \in {0, 1},
        e \in {0, 1}, f \in {0, 1, 64, 128}, g \in {4, 6, 129}}
    \cup {<<>>, <<SYNC_BYTE, SYNC_BYTE2, 5>>}

RecordInputs ==
    {<<a, b, c, d, e>> :
        a \in {0, 1, 2, 3, 6, 253, 254, 255}, b \in {0, 1, 254, 255},
        c \in {0, 1, 179, 180, 255}, d \in {0, 255}, e \in {0, 255}}

CodecCalls ==
    {<<Ev("_send_payload_cmd", [cmd |-> c, payload |-> p])>> :
        c \in OpcodeInputs, p \in PayloadInputs}
    \cup {<<Ev("_send_cmd", c)>> : c \in OpcodeInputs}
    \cup {<<Ev("_read_descriptor", d)>> : d \in DescriptorInputs}
    \cup {<<Ev("_process_scan", r)>> : r \in RecordInputs}

CodecInit ==
    /\ motor_running = TRUE
    /\ rx = <<>> /\ wire = <<>> /\ dev_scanning = FALSE /\ nsent = 0
    /\ op = "none" /\ pc = "idle" /\ ret = "api" /\ genst = "none"
    /\ dsize = 0 /\ err = "none" /\ ncalls = 0
    /\ calls \in CodecCalls
    /\ max_buf_meas = 0 /\ min_len = 0
    /\ raw = <<>> /\ idx = 0 /\ scan = <<>> /\ out = <<>> /\ fed = <<>>
    /\ drains = 0 /\ lastGuard = NoGuard /\ guarded = FALSE

\* the call of calls is made; f is the function called
CodecCall(f) ==
    /\ ncalls = 0 /\ calls[1].op = f
    /\ ncalls' = 1 /\ op' = f
    /\ UNCHANGED <<motor_running, pc, ret, genst, dsize, calls>>
    /\ UNCHANGED devVars
    /\ UNCHANGED <<max_buf_meas, min_len, raw, idx, scan, fed, drains, lastGuard, guarded>>

ApplySendPayloadCmd ==
    /\ CodecCall("_send_payload_cmd")
    /\ out' = <<_send_payload_cmd(calls[1].arg.cmd, calls[1].arg.payload)>>
    /\ UNCHANGED err

ApplySendCmd ==
    /\ CodecCall("_send_cmd")
    /\ out' = <<_send_cmd(calls[1].arg)>>
    /\ UNCHANGED err

\* _read_descriptor on the bytes its read returned (lines 188-193)
ApplyReadDescriptor ==
    /\ CodecCall("_read_descriptor")
    /\ LET d == calls[1].arg
       IN  IF DescriptorError(d) # "none"
           THEN err' = DescriptorError(d) /\ UNCHANGED out
           ELSE out' = <<DecodeDescriptor(d)>> /\ UNCHANGED err

ApplyProcessScan ==
    /\ CodecCall("_process_scan")
    /\ LET r == calls[1].arg
       IN  IF ProcessScanError(r) # "none"
           THEN err' = ProcessScanError(r) /\ UNCHANGED out
           ELSE out' = <<_process_scan(r)>> /\ UNCHANGED err

CodecNext ==
    \/ ApplySendPayloadCmd \/ ApplySendCmd
    \/ ApplyReadDescriptor \/ ApplyProcessScan

CodecSpec == CodecInit /\ [][CodecNext]_vars

\* ------------------------------------------------------------ claims

IterOps == {"iter_measurements", "iter_scans"}

\* the places of the log where cmd was written
Writes(cmd) == {i \in DOMAIN calls : calls[i] = Ev("write", cmd)}

\* the places of the log where get_health returned a report
Healths == {i \in DOMAIN calls : calls[i].op = "health"}

First(S) == CHOOSE i \in S : \A j \in S : i <= j

Latest(S) == CHOOSE i \in S : \A j \in S : j <= i

\* C1: in a startup whose health report is Error before and after the reset,
\* the startup has failed with the hardware-failure error (a later pull of the
\* finished generator gives StopIteration), the report is the last protocol
\* call, and no start-scan command was written.
C1_HardwareFailureEndsStartup ==
    (op \in IterOps /\ Cardinality(Healths) = 2
        /\ \A i \in Healths : calls[i].arg = 2)
    => /\ pc = "idle" /\ genst = "closed"
       /\ err \in {"RPLidar hardware failure", "StopIteration"}
       /\ Latest(Healths) = Len(calls)
       /\ Writes(SCAN_BYTE) = {}
       /\ Cardinality({i \in DOMAIN calls : calls[i].op = "read_descriptor"}) = 2

C1_Witness ==
    /\ op \in IterOps /\ Cardinality(Healths) = 2
    /\ \A i \in Healths : calls[i].arg = 2
    /\ err = "RPLidar hardware failure"

\* C2: in a startup a reset is written iff the first health report is Error
\* (once the report is in, the next protocol call is the reset), at most one
\* reset and at most two get-health commands are written.
C2_ResetIffFirstHealthError ==
    op \in IterOps
    => /\ Cardinality(Writes(RESET_BYTE)) <= 1
       /\ Cardinality(Writes(GET_HEALTH_BYTE)) <= 2
       /\ Writes(RESET_BYTE) # {}
            => /\ Healths # {}
               /\ calls[First(Healths)].arg = 2
               /\ First(Writes(RESET_BYTE)) = First(Healths) + 1
       /\ (Healths # {} /\ calls[First(Healths)].arg = 2)
            => \/ Writes(RESET_BYTE) # {}
               \/ pc = "reset_send" /\ Len(calls) = First(Healths)
       /\ (Healths # {} /\ calls[First(Healths)].arg \in {0, 1})
            => Writes(RESET_BYTE) = {} /\ Cardinality(Writes(GET_HEALTH_BYTE)) = 1

C2_Witness ==
    /\ op \in IterOps /\ pc = "setup_return"
    /\ Writes(RESET_BYTE) # {} /\ Cardinality(Writes(GET_HEALTH_BYTE)) = 2

\* C3: in a startup the start-scan command is written after the motor was
\* powered on and after a health report, the latest of which is not Error; a
\* reset is followed at once by the drain of the input and that by the second
\* get-health command, all before the start-scan command.
C3_ScanAfterMotorAndHealth ==
    op \in IterOps
    => /\ \A i \in Writes(SCAN_BYTE) :
            /\ motor_running
            /\ \E j \in 1..(i - 1) : calls[j] = Ev("motor", 1)
            /\ {h \in Healths : h < i} # {}
            /\ calls[Latest({h \in Healths : h < i})].arg # 2
            /\ \A r \in Writes(RESET_BYTE) : r + 2 < i
       /\ \A r \in Writes(RESET_BYTE) :
            /\ Len(calls) > r => calls[r + 1].op = "clear_input"
            /\ Len(calls) > r + 1 => calls[r + 2] = Ev("write", GET_HEALTH_BYTE)

C3_Witness ==
    /\ op \in IterOps
    /\ Writes(RESET_BYTE) # {} /\ Writes(SCAN_BYTE) # {}

\* C8: stop writes the stop command, then drains the input (nothing is left
\* buffered by the drain), then powers the motor off, and does nothing else;
\* when it has returned the motor is off.
StopCalls == <<Ev("write", STOP_BYTE), Ev("clear_input", 0), Ev("motor", 0)>>

ProtocolErrors ==
    {"Descriptor length mismatch", "Incorrect descriptor starting bytes",
     "Wrong get_info reply length", "Not a single response mode",
     "Not a multiple response mode", "Wrong response data type", "Wrong body size"}

\* the seven bytes the next descriptor read will get, when they are all there
NextDescriptor == SubSeq(rx, 1, DESCRIPTOR_LEN)

DescriptorBuffered ==
    /\ Len(rx) >= DESCRIPTOR_LEN
    /\ \A i \in 1..DESCRIPTOR_LEN : rx[i] < 256

\* The wire format of a descriptor (the device protocol): bytes 2..5 are a
\* little-endian 32-bit value, low 30 bits the length, top 2 bits the mode.
WireLength(d) == d[3] + 256 * d[4] + 65536 * d[5] + 16777216 * (d[6] % 64)

WireMode(d) == d[6] \div 64

\* d is a descriptor that declares, in the wire format, a body of len bytes,
\* single-response mode or not, and data type type
Declares(d, len, single, type) ==
    /\ d[1] = SYNC_BYTE /\ d[2] = SYNC_BYTE2
    /\ WireLength(d) = len
    /\ (WireMode(d) = 0) = single
    /\ d[7] = type

\* C4: the descriptor read after the start-scan command: startup returns the
\* body size only if it declares a 5-byte body, multi-response mode and type
\* 129; for any other descriptor startup fails with a protocol error and
\* nothing more is read from the channel.
C4_StartupOnlyOnScanDescriptor ==
    [][(pc = "scan_desc" /\ pc' # pc /\ DescriptorBuffered)
        => IF Declares(NextDescriptor, SCAN_LEN, FALSE, SCAN_TYPE)
           THEN pc' = "setup_return" /\ dsize' = SCAN_LEN
           ELSE /\ pc' = "idle" /\ genst' = "closed"
                /\ err' \in ProtocolErrors
                /\ Len(rx') = Len(rx) - DESCRIPTOR_LEN]_vars

\* C9: the descriptor read by get_info or get_health called by the user: when
\* it declares another length than the reply's, another mode than single or
\* another type, the request fails with a protocol error, no body is read and
\* the command was written once.
C9_DescriptorMismatchFailsRequest ==
    [][(/\ pc' # pc /\ DescriptorBuffered
        /\ \/ op = "get_info" /\ pc = "gi_desc"
              /\ ~Declares(NextDescriptor, INFO_LEN, TRUE, INFO_TYPE)
           \/ op = "get_health" /\ pc = "gh_desc"
              /\ ~Declares(NextDescriptor, HEALTH_LEN, TRUE, HEALTH_TYPE))
        => /\ pc' = "idle" /\ err' \in ProtocolErrors
           /\ Len(rx') = Len(rx) - DESCRIPTOR_LEN
           /\ calls' = <<Ev("write", IF op = "get_info" THEN GET_INFO_BYTE
                                      ELSE GET_HEALTH_BYTE),
                          Ev("read_descriptor", DESCRIPTOR_LEN)>>]_vars

\* the positions of the measurements processed that have the new-scan flag
Flagged == {i \in DOMAIN fed : fed[i].new_scan}

DecodeFails(r) ==
    \/ r[1] % 2 = (r[1] \div 2) % 2
    \/ r[2] % 2 = 0

C10_DecodeFailureEndsIteration ==
    /\ [][(/\ \/ pc = "m_yield" /\ DecodeFails(raw)
              \/ pc = "s_loop" /\ DecodeFails(Record(idx))
           /\ pc' # pc)
            => /\ err' \in DecodeErrors /\ pc' = "idle"
               /\ genst' = "closed" /\ out' = out]_vars
    /\ [][genst = "closed"
            => \/ genst' = "closed" /\ out' = out /\ pc' = "idle" /\ op' = op
               \/ /\ ncalls' = ncalls + 1 /\ out' = <<>>
                  /\ genst' \in {"none", "running"}
                  /\ genst' = "running"
                       => /\ op' \in IterOps /\ pc' = "setup_start"
                          /\ calls' = <<>>]_vars

C10_Witness ==
    /\ op \in IterOps /\ genst = "running" /\ pc = "setup_start"
    /\ ncalls = MaxCalls + 1

\* the bytes the read of the step asks for, 0 when the driver is not at a read
ReadRequest ==
    IF pc \in {"gi_desc", "gh_desc", "scan_desc"} THEN DESCRIPTOR_LEN
    ELSE IF pc \in {"gi_body", "gh_body", "m_read"} THEN dsize
    ELSE 0

\* the error of a read that got fewer bytes than it asked for
ShortReadError ==
    IF pc \in {"gi_desc", "gh_desc", "scan_desc"} THEN "Descriptor length mismatch"
    ELSE "Wrong body size"

\* the driver does the read it is at
ReadStep == ReadRequest > 0 /\ pc' # pc

Applied(f) == calls # <<>> /\ calls[1].op = f /\ op = f /\ ncalls = 1

\* C12: the frame written for an opcode and a payload is the sync byte, the
\* opcode, one byte holding the length of the payload, the payload and one
\* byte that is the XOR of all the bytes before it, so that the XOR of the
\* whole frame is 0; the frame of a command without payload is the two bytes
\* sync, opcode.
C12_FrameLayout ==
    /\ Applied("_send_payload_cmd")
        => LET cmd == calls[1].arg.cmd
               p == calls[1].arg.payload
               frame == out[1]
               n == Len(frame)
           IN  /\ Len(out) = 1 /\ err = "none"
               /\ n = Len(p) + 4
               /\ frame[1] = 165 /\ frame[2] = cmd /\ frame[3] = Len(p)
               /\ SubSeq(frame, 4, n - 1) = p
               /\ frame[n] = Checksum(SubSeq(frame, 1, n - 1))
               /\ Checksum(frame) = 0
    /\ Applied("_send_cmd")
        => out = <<(<<165, calls[1].arg>>)>> /\ err = "none"

C12_Witness ==
    /\ Applied("_send_payload_cmd")
    /\ calls[1].arg = [cmd |-> 240, payload |-> <<165, 1, 255>>]
    /\ out = <<(<<165, 240, 3, 165, 1, 255, 13>>)>>

\* C13: a 7-byte descriptor that starts with the sync bytes is decoded as the
\* length held in the low 30 bits of the little-endian value of bytes 2..5,
\* the mode of its top 2 bits (single-response iff 0) and the type of byte 6;
\* bytes that do not start with the sync bytes give a protocol error.
C13_DescriptorFields ==
    (Applied("_read_descriptor") /\ Len(calls[1].arg) = DESCRIPTOR_LEN)
    => LET d == calls[1].arg
       IN  IF d[1] = 165 /\ d[2] = 90
           THEN /\ err = "none" /\ Len(out) = 1
                /\ out[1].dsize = WireLength(d)
                /\ out[1].is_single = (WireMode(d) = 0)
                /\ out[1].dtype = d[7]
           ELSE err \in ProtocolErrors /\ out = <<>>

\* C14: a 5-byte record whose byte 0 has bits 0 and 1 equal, or whose byte 1
\* has bit 0 clear, fails to decode with an RPLidarException; any other
\* decodes to new_scan = bit 0 of byte 0, quality = bits 2..7 of byte 0,
\* angle = ((byte1 >> 1) + (byte2 << 7)) / 64 and
\* distance = (byte3 + (byte4 << 8)) / 4.
C14_RecordDecoding ==
    Applied("_process_scan")
    => LET r == calls[1].arg
       IN  IF r[1] % 2 = (r[1] \div 2) % 2 \/ r[2] % 2 = 0
           THEN err \in DecodeErrors /\ out = <<>>
           ELSE /\ err = "none" /\ Len(out) = 1
                /\ out[1].new_scan = (r[1] % 2 = 1)
                /\ out[1].quality = (r[1] - (r[1] % 4)) \div 4
                /\ out[1].quality \in 0..63
                /\ out[1].angle = [num |-> ((r[2] - (r[2] % 2)) \div 2) + 128 * r[3],
                                   den |-> 64]
                /\ out[1].distance = [num |-> r[4] + 256 * r[5], den |-> 4]

C14_Witness ==
    /\ Applied("_process_scan") /\ calls[1].arg = <<253, 255, 179, 255, 255>>
    /\ out = <<[new_scan |-> TRUE, quality |-> 63,
                angle |-> [num |-> 23039, den |-> 64],
                distance |-> [num |-> 65535, den |-> 4]]>>

\* C15: every measurement that decoding returns has an angle in [0, 360)
\* degrees: its raw angle is below 360 * 64.
C15_AngleBelow360 ==
    (Applied("_process_scan") /\ out # <<>>)
    => /\ out[1].angle.num >= 0
       /\ out[1].angle.num < 360 * out[1].angle.den

\* the generator does a read of measurement bytes (a read of 0 bytes, which
\* iter_scans repeats while no whole record is buffered, is none)
BodyReadStep == pc \in {"m_read", "s_read"} /\ pc' # pc

\* C16 as stated: before each read of measurement bytes, the first one
\* included, the guard has run since the read before it.
C16_GuardBeforeEachRead ==
    [][(op \in IterOps /\ BodyReadStep) => guarded]_vars

\* where the guard runs, and where it does not
FlaggedAtHand == pc = "s_loop" /\ ProcessScan(Record(idx)).new_scan

GuardPlacement ==
    /\ max_buf_meas = 0 => ~guarded'
    /\ (BodyReadStep /\ out = <<>> /\ fed = <<>>) => ~guarded
    /\ (op = "iter_measurements" /\ max_buf_meas # 0 /\ BodyReadStep /\ out # <<>>)
         => guarded
    /\ (op = "iter_measurements" /\ max_buf_meas # 0 /\ pc = "m_yield" /\ pc' # pc)
         => guarded'
    /\ (op = "iter_scans" /\ guarded' /\ ~guarded)
         => (pc = "s_resume" \/ (FlaggedAtHand /\ Len(scan) <= min_len))
    /\ (op = "iter_scans" /\ max_buf_meas # 0 /\ pc = "s_resume" /\ pc' # pc)
         => guarded'
    /\ (op = "iter_scans" /\ max_buf_meas # 0 /\ FlaggedAtHand /\ fed' # fed /\ out' = out)
         => guarded'

\* C16, amended: the guard never runs when max_buf_meas is 0 and never
\* before the first read. In iter_measurements it runs after each body read,
\* before the record is decoded and yielded, hence between any two consecutive
\* body reads. In iter_scans it runs only when a measurement with the new-scan
\* flag is processed, after the scan in progress was emitted or dropped, and
\* then always.
C16_GuardAfterRead ==
    [][(op \in IterOps) => GuardPlacement]_vars

C16_Witness ==
    /\ op = "iter_scans" /\ max_buf_meas # 0 /\ pc = "s_read"
    /\ fed # <<>> /\ ~guarded /\ Len(rx) >= dsize

\* the measurement with entry e was processed with the new-scan flag set
\* (the entries of a session differ: each holds the number of its record)
FlagOf(e) == \E i \in DOMAIN fed : fed[i].entry = e /\ fed[i].new_scan

\* C17: every scan emitted by iter_scans starts with a measurement that had
\* the new-scan flag set and holds no other measurement that had it; the
\* measurements processed before the first flag are in no emitted scan.
C17_ScanStartsAtFlag ==
    op = "iter_scans"
    => \A k \in DOMAIN out :
          /\ FlagOf(out[k][1])
          /\ \A j \in 2..Len(out[k]) : ~FlagOf(out[k][j])

\* the device has sent all it will send and all of it has arrived
Stalled == wire = <<>> /\ nsent = MaxMeas

\* C18: when the channel has stopped delivering bytes and holds no whole
\* record, a generator that is at its read of measurement bytes (after a
\* successful startup) returns to the caller with an error.
C18_StalledReadReturns ==
    (/\ op \in IterOps /\ genst = "running" /\ pc \in {"m_read", "s_read"}
     /\ Stalled /\ Len(rx) < dsize)
    ~> (pc = "idle" /\ genst = "closed" /\ err # "none")

\* an iteration is past its startup and has not ended
Iterating ==
    /\ op \in IterOps /\ genst \in {"running", "suspended"}
    /\ pc \in {"setup_return", "m_read", "m_yield", "s_read", "s_loop", "s_resume", "idle"}

\* the channel holds nothing, or its oldest byte is the first byte of a record
\* of the stream
AtRecordBoundary ==
    rx # <<>> => \E n \in 0..(MaxMeas - 1) : rx[1] = 256 + 5 * n

\* C19: once the scan descriptor has been read, what the channel holds starts
\* at a record boundary of the stream, and every read that does not end the
\* iteration (body read or drain) takes a multiple of 5 bytes from it.
C19_RecordAlignment ==
    /\ [](Iterating => AtRecordBoundary)
    /\ [][(Iterating /\ Iterating' /\ Len(rx') < Len(rx))
            => (Len(rx) - Len(rx')) % 5 = 0]_vars

C19_Witness ==
    /\ Iterating /\ drains > 0 /\ lastGuard.left > 0
    /\ Len(rx) \in 1..4

\* the places of fed that stand for an overflow drain
DrainMarks == {p \in DOMAIN fed : fed[p] = DrainMark}

\* where in fed the measurement with entry e was processed; 0 if nowhere
ProcessedAt(e) ==
    IF \E i \in DOMAIN fed : fed[i].entry = e
    THEN CHOOSE i \in DOMAIN fed : fed[i].entry = e
    ELSE 0

\* C20: in iter_scans an overflow drain leaves the scan in progress empty and
\* the generator at a new read, so that what was left of the batch is not
\* processed; every emitted scan is made of measurements that were processed,
\* all before or all after any one drain.
C20_DrainBetweenScans ==
    /\ [][(op = "iter_scans" /\ drains' = drains + 1)
            => /\ scan' = <<>> /\ pc' = "s_read"
               /\ Len(fed') \in DrainMarks']_vars
    /\ [](op = "iter_scans"
            => \A k \in DOMAIN out : \A i, j \in DOMAIN out[k] :
                  /\ ProcessedAt(out[k][i]) > 0
                  /\ \A p \in DrainMarks :
                        ProcessedAt(out[k][i]) < p <=> ProcessedAt(out[k][j]) < p)

C20_Witness ==
    /\ op = "iter_scans" /\ out # <<>> /\ DrainMarks # {}
    /\ pc = "s_read" /\ scan = <<>> /\ rx # <<>>

====
